---------------------------- MODULE Spec2Model ----------------------------
(***************************************************************************)
(* localstorage-slim (src/src/ls.ts): a decorator over the browser's       *)
(* localStorage adding per-entry TTL, reversible obfuscation and expiry    *)
(* callbacks.                                                              *)
(*                                                                         *)
(* JavaScript strings are sequences of UTF-16 code units (integers).       *)
(* JavaScript values are records tagged by the field t.  An object is a    *)
(* sequence of [k, v] pairs in insertion order, k being the key's code     *)
(* units.  Arrays are not modelled: no operation of ls.ts distinguishes an *)
(* array from an object without the marker key.                            *)
(***************************************************************************)
EXTENDS Integers, Sequences, FiniteSets, Bags, TLC

\* ------------------------------------------------------------- bounds
\* The clock starts at one tick and stops advancing after MaxTicks ticks.
MaxTicks == 3
\* The two TTL durations (seconds) callers use.
TtlShort == 1
TtlLong == 2

\* ------------------------------------------------------ program constants
\* ls.ts:76  (_conf.ttl as number) * 1e3
MsPerSec == 1000
\* ls.ts:61  secret: 75
DefaultSecret == 75
\* String.fromCharCode keeps 16 bits of its argument (ls.ts:40, ls.ts:42)
CodeUnits == 65536

\* ------------------------------------------------------------ JS values
Undefined == [t |-> "undefined"]
Null == [t |-> "null"]
NaN == [t |-> "NaN"]
Num(n) == [t |-> "number", n |-> n]
Bool(b) == [t |-> "boolean", b |-> b]
Str(s) == [t |-> "string", s |-> s]
\* a function value; src is the text Function.prototype.toString gives
Fn(src) == [t |-> "function", src |-> src]
Obj(pairs) == [t |-> "object", f |-> pairs]
\* an object that refers to itself
Circular == [t |-> "circular"]
\* the outcome of an expression that throws
Throw == [t |-> "throw"]
\* the outcome of a public operation that raises to its caller
Raised == [t |-> "raised"]

\* ls.ts:34  const APX = String.fromCharCode(0)
APX == <<0>>
\* the property names "ttl" and "cb" (ls.ts:76, ls.ts:92)
TtlKey == <<116, 116, 108>>
CbKey == <<99, 98>>

\* key in obj
HasKey(o, key) == \E i \in 1..Len(o.f) : o.f[i].k = key

\* obj[key]: undefined when the key is missing
Prop(o, key) ==
  IF HasKey(o, key)
    THEN o.f[CHOOSE i \in 1..Len(o.f) : o.f[i].k = key].v
    ELSE Undefined

\* obj[key] = v: replaces the value in place, or appends a new property
PutProp(o, key, v) ==
  IF HasKey(o, key)
    THEN Obj([i \in 1..Len(o.f) |->
                IF o.f[i].k = key THEN [k |-> key, v |-> v] ELSE o.f[i]])
    ELSE Obj(Append(o.f, [k |-> key, v |-> v]))

\* JavaScript truthiness
Truthy(v) ==
  CASE v.t \in {"undefined", "null", "NaN"} -> FALSE
    [] v.t = "number" -> v.n # 0
    [] v.t = "boolean" -> v.b
    [] v.t = "string" -> v.s # <<>>
    [] OTHER -> TRUE

\* helpers.isObject: a plain object (not null, not a string or number)
isObject(v) == v.t \in {"object", "circular"}

\* now > x as JavaScript compares a number with x (ls.ts:141, ls.ts:165):
\* undefined and NaN compare false, null counts as 0
JsGreater(n, x) ==
  CASE x.t = "number" -> n > x.n
    [] x.t = "null" -> n > 0
    [] OTHER -> FALSE

\* ------------------------------------------------------- JSON, by value
\* A string held by localStorage is either the text JSON.stringify made of
\* a value (JsonText of the value as JSON keeps it), or a text that is not
\* JSON (RawText), or missing (NoItem: getItem returns null).
JsonText(v) == [t |-> "json", v |-> v]
RawText(s) == [t |-> "raw", s |-> s]
NoItem == [t |-> "none"]
\* String(undefined), what setItem stores when handed undefined
UndefinedText == RawText(<<117, 110, 100, 101, 102, 105, 110, 101, 100>>)

RECURSIVE HasCycle(_)
HasCycle(v) ==
  CASE v.t = "circular" -> TRUE
    [] v.t = "object" -> \E i \in 1..Len(v.f) : HasCycle(v.f[i].v)
    [] OTHER -> FALSE

\* what JSON keeps of a value: properties holding undefined or a function
\* are dropped, NaN becomes null
RECURSIVE JsonKeep(_)
JsonKeep(v) ==
  CASE v.t = "NaN" -> Null
    [] v.t = "object" ->
         Obj([i \in 1..Len(SelectSeq(v.f, LAMBDA p : p.v.t \notin {"undefined", "function"})) |->
                LET p == SelectSeq(v.f, LAMBDA q : q.v.t \notin {"undefined", "function"})[i]
                IN  [k |-> p.k, v |-> JsonKeep(p.v)]])
    [] OTHER -> v

\* JSON.stringify(v): a text, undefined (for undefined and functions), or
\* a TypeError for a circular structure
stringify(v) ==
  IF HasCycle(v) THEN Throw
  ELSE IF v.t \in {"undefined", "function"} THEN Undefined
  ELSE JsonText(JsonKeep(v))

\* JSON.parse(text): the value, or a SyntaxError
parse(text) == IF text.t = "json" THEN text.v ELSE Throw


\* ------------------------------------------------- JSON, by code unit
\* The obfuscator works on the characters of JSON.stringify's text, so
\* that text is spelled out here for the values that can be obfuscated.
Hex(d) == IF d < 10 THEN 48 + d ELSE 87 + d

\* \uXXXX
UEscape(c) ==
  <<92, 117, Hex(c \div 4096), Hex((c \div 256) % 16), Hex((c \div 16) % 16), Hex(c % 16)>>

IsHigh(c) == c >= 55296 /\ c <= 56319
IsLow(c) == c >= 56320 /\ c <= 57343

\* the inside of a JSON string literal (well-formed JSON.stringify)
RECURSIVE QuoteFrom(_, _)
QuoteFrom(s, i) ==
  IF i > Len(s) THEN <<>>
  ELSE LET c == s[i] IN
    IF IsHigh(c) /\ i < Len(s) /\ IsLow(s[i + 1])
      THEN <<c, s[i + 1]>> \o QuoteFrom(s, i + 2)
    ELSE (CASE c = 34 -> <<92, 34>>
            [] c = 92 -> <<92, 92>>
            [] c = 8 -> <<92, 98>>
            [] c = 9 -> <<92, 116>>
            [] c = 10 -> <<92, 110>>
            [] c = 12 -> <<92, 102>>
            [] c = 13 -> <<92, 114>>
            [] c < 32 \/ IsHigh(c) \/ IsLow(c) -> UEscape(c)
            [] OTHER -> <<c>>) \o QuoteFrom(s, i + 1)

Quote(s) == <<34>> \o QuoteFrom(s, 1) \o <<34>>

RECURSIVE Digits(_)
Digits(n) == IF n < 10 THEN <<48 + n>> ELSE Digits(n \div 10) \o <<48 + (n % 10)>>

\* the characters of JSON.stringify(v), v being what JSON keeps of a value
RECURSIVE JsonChars(_)
RECURSIVE Members(_, _)
Members(pairs, i) ==
  IF i > Len(pairs) THEN <<>>
  ELSE (IF i > 1 THEN <<44>> ELSE <<>>)
       \o Quote(pairs[i].k) \o <<58>> \o JsonChars(pairs[i].v)
       \o Members(pairs, i + 1)

JsonChars(v) ==
  CASE v.t = "null" -> <<110, 117, 108, 108>>
    [] v.t = "boolean" ->
         IF v.b THEN <<116, 114, 117, 101>> ELSE <<102, 97, 108, 115, 101>>
    [] v.t = "number" -> IF v.n < 0 THEN <<45>> \o Digits(-v.n) ELSE Digits(v.n)
    [] v.t = "string" -> Quote(v.s)
    [] v.t = "object" -> <<123>> \o Members(v.f, 1) \o <<125>>

\* [...str].map(x => x.charCodeAt(0)): spreading a string walks its code
\* points, and charCodeAt(0) reads the first code unit of each
RECURSIVE SpreadHeads(_, _)
SpreadHeads(s, i) ==
  IF i > Len(s) THEN <<>>
  ELSE IF IsHigh(s[i]) /\ i < Len(s) /\ IsLow(s[i + 1])
    THEN <<s[i]>> \o SpreadHeads(s, i + 2)
    ELSE <<s[i]>> \o SpreadHeads(s, i + 1)

\* String.fromCharCode(c + key)
FromCharCode(n) == n % CodeUnits

ShiftAll(s, key) ==
  LET h == SpreadHeads(s, 1) IN [i \in 1..Len(h) |-> FromCharCode(h[i] + key)]

\* -------------------------------------------------------- the inputs
\* "x"
StrX == Str(<<120>>)
\* one character outside the basic plane, U+1F600: a surrogate pair
Astral == Str(<<55357, 56832>>)
\* {ttl: 3, v: "x"}: a value with a ttl property of its own
OwnTtlObj == Obj(<<[k |-> TtlKey, v |-> Num(3)], [k |-> <<118>>, v |-> StrX]>>)
\* {a: null, b: undefined}
SparseObj == Obj(<<[k |-> <<97>>, v |-> Null], [k |-> <<98>>, v |-> Undefined]>>)
\* {"\u0000": "x"}: a value with a property named by the NUL character
MarkerObj == Obj(<<[k |-> APX, v |-> StrX]>>)
\* k => 0, a callback whose text is a function expression
ArrowFn == Fn(<<107, 61, 62, 48>>)
\* k => 1, another such callback
PlainFn == Fn(<<107, 61, 62, 49>>)
\* a bound or built-in function: its text is "function () { [native code] }"
NativeFn ==
  Fn(<<102, 117, 110, 99, 116, 105, 111, 110, 32, 40, 41, 32, 123, 32, 91, 110, 97,
       116, 105, 118, 101, 32, 99, 111, 100, 101, 93, 32, 125>>)

Vals == {StrX, Astral, Num(1), Null, Undefined, OwnTtlObj, SparseObj, MarkerObj, Circular}

\* the secrets callers use: the default and another one
OtherSecret == DefaultSecret + 1
Secrets == {DefaultSecret, OtherSecret}

\* JSON.parse of a character sequence.  A string literal without escapes
\* and a run of digits are read as such; for every other text the parse
\* is the value of the model whose JSON text it is, and a SyntaxError
\* when there is none.  The texts parsed are JSON texts of Vals shifted
\* by the difference of two secrets or by one secret: apart from literals
\* and digits none of these is JSON unless the shifts cancel.
ParseUniverse ==
  {JsonKeep(v) : v \in {w \in Vals : stringify(w).t = "json"}} \cup {Bool(TRUE), Bool(FALSE)}

IsLiteral(cs) ==
  /\ Len(cs) >= 2
  /\ cs[1] = 34
  /\ cs[Len(cs)] = 34
  /\ \A i \in 2..(Len(cs) - 1) : cs[i] >= 32 /\ cs[i] \notin {34, 92}

IsNatural(cs) ==
  /\ Len(cs) >= 1
  /\ \A i \in 1..Len(cs) : cs[i] >= 48 /\ cs[i] <= 57
  /\ (Len(cs) = 1 \/ cs[1] # 48)

RECURSIVE NatOf(_)
NatOf(cs) ==
  IF Len(cs) = 0 THEN 0
  ELSE 10 * NatOf(SubSeq(cs, 1, Len(cs) - 1)) + (cs[Len(cs)] - 48)

parseChars(cs) ==
  IF IsLiteral(cs) THEN Str(SubSeq(cs, 2, Len(cs) - 1))
  ELSE IF IsNatural(cs) THEN Num(NatOf(cs))
  ELSE IF \E v \in ParseUniverse : JsonChars(v) = cs
    THEN CHOOSE v \in ParseUniverse : JsonChars(v) = cs
  ELSE Throw

\* ls.ts:37-42, encrypt = true: every character of JSON.stringify(str)
\* moved up by key.  Spreading undefined (nothing to stringify) throws.
obfus(str, key) ==
  LET text == stringify(str) IN
  IF text.t # "json" THEN Throw
  ELSE Str(ShiftAll(JsonChars(text.v), key))

\* ls.ts:42-46, encrypt = false: every character moved down by key, then
\* JSON.parse.  Spreading anything but a string throws.
decrypter(str, key) ==
  IF str.t # "string" THEN Throw
  ELSE parseChars(ShiftAll(str.s, 0 - key))

\* ------------------------------------------------------------ the state
Keys == {"a", "b"}
\* Object.keys(localStorage): the order of the keys is the browser's choice
KeyOrders == {<<"a", "b">>, <<"b", "a">>}

VARIABLES
  hasLS,     \* ls.ts:11  the cached answer of supportsLS, undefined at first
  lsOK,      \* whether the page may access localStorage (the environment)
  config,    \* ls.ts:56-62  the process-wide configuration
  store,     \* localStorage: key -> the text it holds, or NoItem
  cbRefs,    \* ls.ts:49  the bag of timers that are armed and have not fired
  now,       \* Date.now()
  last,      \* the call made last and what it returned to its caller
  written,   \* per key, where the text it holds comes from (history): from
             \* set, with the expiry set computed (null without a TTL)
  invoked,   \* the keys an expiry callback was invoked with (history)
  owed       \* the keys set wrote with a TTL and a callback in this process
             \* and that the caller has not removed (remove, clear, a
             \* forced poll) or overwritten since, and whose callback has
             \* not been invoked (history)

vars == <<hasLS, lsOK, config, store, cbRefs, now, last, written, invoked, owed>>

\* a configuration argument that names no property
NoConf ==
  [ttl |-> Undefined, encrypt |-> Undefined, secret |-> Undefined,
   cb |-> Undefined, decrypt |-> Undefined]

\* written[k]: never written by set / written by another consumer
NotWritten == [t |-> "not written"]
Foreign == [t |-> "foreign"]

\* the merge with the default taking precedence over the override
merge_DefaultFirst(lc) ==
  [ttl |-> IF Truthy(config.ttl) THEN config.ttl ELSE lc.ttl,
   encrypt |-> IF Truthy(config.encrypt) THEN config.encrypt ELSE lc.encrypt,
   secret |-> IF lc.secret = Undefined THEN config.secret ELSE lc.secret,
   cb |-> lc.cb,
   decrypt |-> lc.decrypt]

\* ls.ts:67-72 and ls.ts:113-118: a property the argument does not name
\* comes from config; encrypt and ttl are then computed
merge(lc) ==
  [ttl |-> IF lc.ttl = Null THEN Null
           ELSE IF Truthy(lc.ttl) THEN lc.ttl ELSE config.ttl,
   encrypt |-> IF lc.encrypt = Bool(FALSE) THEN Bool(FALSE)
               ELSE IF Truthy(lc.encrypt) THEN lc.encrypt ELSE config.encrypt,
   secret |-> IF lc.secret = Undefined THEN config.secret ELSE lc.secret,
   cb |-> lc.cb,
   decrypt |-> lc.decrypt]

\* ls.ts:75  _conf.ttl && !isNaN(_conf.ttl) && _conf.ttl > 0
hasTTLOf(conf) == conf.ttl.t = "number" /\ conf.ttl.n > 0

\* ls.ts:169  new Function('key', `...(${item.cb})(key)`) is a SyntaxError
\* unless the text is a function expression
Compiles(text) == text.t = "string" /\ text.s \in {ArrowFn.src, PlainFn.src}

\* the machine an operation runs on, and what it makes of it: the fields
\* hasLS, store, cbRefs, and ret, the value returned (Raised: it threw)
Machine == [hasLS |-> hasLS, store |-> store, cbRefs |-> cbRefs, ret |-> Undefined]

\* ls.ts:152-172: the body of flush's loop, for one key
flushKey(r, key, force) ==
  IF r.ret = Raised THEN r
  ELSE LET str == r.store[key] IN
    IF str = NoItem \/ str = RawText(<<>>) THEN r
    ELSE LET item == parse(str) IN
      IF item = Throw THEN r
      ELSE IF isObject(item) /\ HasKey(item, APX)
        THEN IF JsGreater(now, Prop(item, TtlKey)) \/ force
               THEN [r EXCEPT !.store[key] = NoItem]
             ELSE IF Truthy(Prop(item, CbKey))
               THEN IF Compiles(Prop(item, CbKey))
                      THEN [r EXCEPT !.cbRefs = @ (+) SetToBag({
                              [key |-> key,
                               due |-> IF Prop(item, TtlKey).t = "number"
                                         THEN Prop(item, TtlKey).n ELSE now,
                               cb |-> Prop(item, CbKey)]})]
                      ELSE [r EXCEPT !.ret = Raised]
             ELSE r
      ELSE r

\* ls.ts:151  Object.keys(localStorage).forEach
RECURSIVE flushKeys(_, _, _, _)
flushKeys(r, ord, i, force) ==
  IF i > Len(ord) THEN r
  ELSE flushKeys(flushKey(r, ord[i], force), ord, i + 1, force)

\* a probe that keeps only the answer yes and asks again after a no
supportsLS_Reprobe(m, ord) ==
  IF m.hasLS = Bool(TRUE) THEN [m EXCEPT !.ret = m.hasLS]
  ELSE IF lsOK
    THEN LET r == flushKeys([hasLS |-> Bool(TRUE), store |-> m.store,
                             cbRefs |-> EmptyBag, ret |-> Undefined], ord, 1, FALSE)
         IN  IF r.ret = Raised THEN r ELSE [r EXCEPT !.ret = Bool(TRUE)]
    ELSE [hasLS |-> Bool(FALSE), store |-> m.store, cbRefs |-> EmptyBag,
          ret |-> Bool(FALSE)]

\* ls.ts:13-31.  The first call stores the answer and runs poll(), whose
\* flush finds hasLS set and scans the store when it is true.  ret is the
\* answer (a boolean), or Raised when that first scan throws.
supportsLS(m, ord) ==
  IF m.hasLS # Undefined THEN [m EXCEPT !.ret = m.hasLS]
  ELSE IF lsOK
    THEN LET r == flushKeys([hasLS |-> Bool(TRUE), store |-> m.store,
                             cbRefs |-> EmptyBag, ret |-> Undefined], ord, 1, FALSE)
         IN  IF r.ret = Raised THEN r ELSE [r EXCEPT !.ret = Bool(TRUE)]
    ELSE [hasLS |-> Bool(FALSE), store |-> m.store, cbRefs |-> EmptyBag,
          ret |-> Bool(FALSE)]

\* ls.ts:149-174
flush(m, force, ord) ==
  LET p == supportsLS(m, ord) IN
  IF p.ret = Raised \/ p.ret = Bool(FALSE) THEN p
  ELSE flushKeys([p EXCEPT !.ret = Undefined], ord, 1, force)

\* ls.ts:50-54
poll(m, force, ord) ==
  LET r == flush([m EXCEPT !.cbRefs = EmptyBag], force, ord) IN
  IF r.ret = Raised THEN r ELSE [r EXCEPT !.ret = Undefined]

\* an encoding that attaches the callback whether or not a TTL is in effect
encode_CallbackAlways(value, conf) ==
  LET hasTTL == hasTTLOf(conf)
      val == IF hasTTL
               THEN Obj(<<[k |-> APX, v |-> value],
                          [k |-> TtlKey, v |-> Num(now + conf.ttl.n * MsPerSec)]>>)
               ELSE IF conf.cb.t = "function"
                 THEN Obj(<<[k |-> APX, v |-> value]>>)
                 ELSE value
  IN  IF conf.cb.t = "function"
        THEN PutProp(val, CbKey, Str(conf.cb.src))
        ELSE val

\* an encoding that obfuscates the whole envelope, expiry and callback too
encode_WholeEnvelope(value, conf) ==
  LET hasTTL == hasTTLOf(conf)
      val == IF hasTTL
               THEN Obj(<<[k |-> APX, v |-> value],
                          [k |-> TtlKey, v |-> Num(now + conf.ttl.n * MsPerSec)]>>)
               ELSE value
      val2 == IF hasTTL /\ conf.cb.t = "function"
                THEN PutProp(val, CbKey, Str(conf.cb.src))
                ELSE val
  IN  IF Truthy(conf.encrypt) THEN obfus(val2, conf.secret.n) ELSE val2

\* ls.ts:76-93: the value handed to JSON.stringify, or Throw when the
\* encrypter throws
encode(value, conf) ==
  LET hasTTL == hasTTLOf(conf)
      val == IF hasTTL
               THEN Obj(<<[k |-> APX, v |-> value],
                          [k |-> TtlKey, v |-> Num(now + conf.ttl.n * MsPerSec)]>>)
               ELSE value
      enc == obfus(value, conf.secret.n)
      val2 == IF Truthy(conf.encrypt)
                THEN IF enc = Throw THEN Throw
                     ELSE IF hasTTL THEN PutProp(val, APX, enc) ELSE enc
                ELSE val
  IN  IF val2 = Throw THEN Throw
      ELSE IF hasTTL /\ conf.cb.t = "function"
        THEN PutProp(val2, CbKey, Str(conf.cb.src))
        ELSE val2

\* localStorage.setItem(key, text): undefined is stored as "undefined"
setItem(st, key, text) ==
  [st EXCEPT ![key] = IF text = Undefined THEN UndefinedText ELSE text]

\* ls.ts:64-102.  exp tells what was written: Undefined when setItem was
\* not reached, else the expiry written (null without a TTL).
set(m, key, value, lc, ord) ==
  LET p == supportsLS(m, ord)
      conf == merge(lc)
      val == encode(value, conf)
      text == IF val = Throw THEN Throw ELSE stringify(val)
      put == [p EXCEPT !.store = setItem(p.store, key, text), !.ret = Undefined]
      polled == poll(put, FALSE, ord)
      exp == IF hasTTLOf(conf) THEN Num(now + conf.ttl.n * MsPerSec) ELSE Null
  IN  IF p.ret = Raised THEN [p EXCEPT !.ret = Raised] @@ [exp |-> Undefined]
      ELSE IF p.ret = Bool(FALSE) THEN p @@ [exp |-> Undefined]
      ELSE IF text = Throw THEN [p EXCEPT !.ret = Bool(FALSE)] @@ [exp |-> Undefined]
      ELSE IF ~hasTTLOf(conf) THEN put @@ [exp |-> exp]
      ELSE IF polled.ret = Raised THEN [polled EXCEPT !.ret = Bool(FALSE)] @@ [exp |-> exp]
      ELSE polled @@ [exp |-> exp]

\* a decryption whose failure loses the data instead of keeping it
decrypted_LosesData(item, conf) ==
  LET hasTTL == isObject(item) /\ HasKey(item, APX)
      d == decrypter(IF hasTTL THEN Prop(item, APX) ELSE item, conf.secret.n)
  IN  IF Truthy(conf.decrypt) \/ Truthy(conf.encrypt)
        THEN IF hasTTL THEN PutProp(item, APX, IF d = Throw THEN Null ELSE d)
             ELSE IF d = Throw THEN Null ELSE d
        ELSE item

\* ls.ts:123-134: the item after the attempt to decrypt it
decrypted(item, conf) ==
  LET hasTTL == isObject(item) /\ HasKey(item, APX)
      d == decrypter(IF hasTTL THEN Prop(item, APX) ELSE item, conf.secret.n)
  IN  IF Truthy(conf.decrypt) \/ Truthy(conf.encrypt)
        THEN IF d = Throw THEN item
             ELSE IF hasTTL THEN PutProp(item, APX, d) ELSE d
        ELSE item

\* a get that judges expiry by the ttl in effect when it is called
get_TtlInEffect(m, key, lc, ord) ==
  LET p == supportsLS(m, ord)
      str == p.store[key]
      conf == merge(lc)
      parsed == parse(str)
      hasTTL == isObject(parsed) /\ HasKey(parsed, APX)
      item == decrypted(parsed, conf)
  IN  IF p.ret = Raised THEN p
      ELSE IF p.ret = Bool(FALSE) THEN [p EXCEPT !.ret = Null]
      ELSE IF str = NoItem \/ str = RawText(<<>>) THEN [p EXCEPT !.ret = Null]
      ELSE IF parsed = Throw THEN [p EXCEPT !.ret = Raised]
      ELSE IF ~hasTTL \/ ~hasTTLOf(conf) THEN
        [p EXCEPT !.ret = IF hasTTL THEN Prop(item, APX) ELSE item]
      ELSE IF JsGreater(now, Prop(item, TtlKey))
        THEN [p EXCEPT !.store[key] = NoItem, !.ret = Null]
      ELSE [p EXCEPT !.ret = Prop(item, APX)]

\* ls.ts:104-147
get(m, key, lc, ord) ==
  LET p == supportsLS(m, ord)
      str == p.store[key]
      conf == merge(lc)
      parsed == parse(str)
      hasTTL == isObject(parsed) /\ HasKey(parsed, APX)
      item == decrypted(parsed, conf)
  IN  IF p.ret = Raised THEN p
      ELSE IF p.ret = Bool(FALSE) THEN [p EXCEPT !.ret = Null]
      ELSE IF str = NoItem \/ str = RawText(<<>>) THEN [p EXCEPT !.ret = Null]
      ELSE IF parsed = Throw THEN [p EXCEPT !.ret = Raised]
      ELSE IF ~hasTTL THEN [p EXCEPT !.ret = item]
      ELSE IF JsGreater(now, Prop(item, TtlKey))
        THEN [p EXCEPT !.store[key] = NoItem, !.ret = Null]
      ELSE [p EXCEPT !.ret = Prop(item, APX)]

\* ls.ts:176-179
remove(m, key, ord) ==
  LET p == supportsLS(m, ord) IN
  IF p.ret = Raised \/ p.ret = Bool(FALSE) THEN p
  ELSE [p EXCEPT !.store[key] = NoItem, !.ret = Undefined]

\* ls.ts:181-184
clear(m, ord) ==
  LET p == supportsLS(m, ord) IN
  IF p.ret = Raised \/ p.ret = Bool(FALSE) THEN p
  ELSE [p EXCEPT !.store = [k \in Keys |-> NoItem], !.ret = Undefined]

\* ----------------------------------------------------------- the actions
Call(op, key, val, cfg, ret) ==
  [op |-> op, key |-> key, val |-> val, cfg |-> cfg, ret |-> ret]

\* a step that is no call of the library
NoCall(op) == Call(op, "", Undefined, NoConf, Undefined)

\* the history of the keys that still hold a text
Kept(w, st) == [k \in Keys |-> IF st[k] = NoItem THEN NotWritten ELSE w[k]]

Result(r) ==
  /\ hasLS' = r.hasLS
  /\ store' = r.store
  /\ cbRefs' = r.cbRefs

\* flush throws on a text: an envelope whose callback text does not compile
Throwing(text) ==
  LET item == parse(text) IN
  /\ item # Throw
  /\ isObject(item)
  /\ HasKey(item, APX)
  /\ Truthy(Prop(item, CbKey))
  /\ ~Compiles(Prop(item, CbKey))

\* The orders in which a scan may visit the keys.  A scan removes keys and
\* arms timers key by key, so its outcome depends on the order only when
\* it can throw half way: every order is tried then, one otherwise.
Orders(cb) ==
  IF (\E k \in Keys : Throwing(store[k])) \/ (cb.t = "function" /\ ~Compiles(Str(cb.src)))
    THEN KeyOrders
    ELSE {<<"a", "b">>}

Set(k, v, lc) ==
  \E ord \in Orders(lc.cb) :
    \E r \in {set(Machine, k, v, lc, ord)} :
    /\ Result(r)
    /\ last' = Call("set", k, v, lc, r.ret)
    /\ written' = Kept(IF r.exp = Undefined THEN written
                        ELSE [written EXCEPT ![k] =
                                [t |-> "set", exp |-> r.exp]],
                        r.store)
    /\ owed' = IF r.exp = Undefined THEN owed
               ELSE IF r.exp # Null /\ lc.cb.t = "function" THEN owed \cup {k}
               ELSE owed \ {k}
    /\ UNCHANGED <<lsOK, config, now, invoked>>

Get(k, lc) ==
  \E ord \in Orders(Undefined) :
    \E r \in {get(Machine, k, lc, ord)} :
    /\ Result(r)
    /\ last' = Call("get", k, Undefined, lc, r.ret)
    /\ written' = Kept(written, r.store)
    /\ UNCHANGED <<lsOK, config, now, invoked, owed>>

Remove(k) ==
  \E ord \in Orders(Undefined) :
    \E r \in {remove(Machine, k, ord)} :
    /\ Result(r)
    /\ last' = Call("remove", k, Undefined, NoConf, r.ret)
    /\ written' = Kept(written, r.store)
    /\ owed' = IF r.ret = Undefined THEN owed \ {k} ELSE owed
    /\ UNCHANGED <<lsOK, config, now, invoked>>

Clear ==
  \E ord \in Orders(Undefined) :
    \E r \in {clear(Machine, ord)} :
    /\ Result(r)
    /\ last' = Call("clear", "", Undefined, NoConf, r.ret)
    /\ written' = Kept(written, r.store)
    /\ owed' = IF r.ret = Undefined THEN {} ELSE owed
    /\ UNCHANGED <<lsOK, config, now, invoked>>

\* ls.poll(forceFlush); the flag is kept in last.val
Poll(force) ==
  \E ord \in Orders(Undefined) :
    \E r \in {poll(Machine, force, ord)} :
    /\ Result(r)
    /\ last' = Call("poll", "", Bool(force), NoConf, r.ret)
    /\ written' = Kept(written, r.store)
    /\ owed' = IF force THEN {k \in owed : r.store[k] # NoItem} ELSE owed
    /\ UNCHANGED <<lsOK, config, now, invoked>>

\* a timer body that calls the callback before it removes the key
timerBody_CallbackFirst(st, tm) ==
  [store |-> [st EXCEPT ![tm.key] = NoItem], arg |-> tm.key, seen |-> st[tm.key]]

\* ls.ts:169  the function a timer runs: localStorage.removeItem(key), then
\* the callback applied to key.  seen is what the callback finds under the
\* key when it is called.
timerBody(st, tm) ==
  LET removed == [st EXCEPT ![tm.key] = NoItem] IN
  [store |-> removed, arg |-> tm.key, seen |-> removed[tm.key]]

\* ls.ts:169-170: a timer fires no earlier than its delay and runs its
\* function; last.key is the callback's argument, last.val what it found
\* under the key
TimerFire(tm) ==
  /\ BagIn(tm, cbRefs)
  /\ now >= tm.due
  /\ \E b \in {timerBody(store, tm)} :
       /\ store' = b.store
       /\ invoked' = invoked \cup {b.arg}
       /\ owed' = owed \ {b.arg}
       /\ last' = Call("timer", b.arg, b.seen, NoConf, Undefined)
       /\ written' = Kept(written, b.store)
  /\ cbRefs' = cbRefs (-) SetToBag({tm})
  /\ UNCHANGED <<hasLS, lsOK, config, now>>

\* time passes, one second at a time
Tick ==
  /\ now < MsPerSec * (MaxTicks + 1)
  /\ now' = now + MsPerSec
  /\ last' = NoCall("tick")
  /\ UNCHANGED <<hasLS, lsOK, config, store, cbRefs, written, invoked, owed>>

\* the caller assigns to ls.config.ttl
SetConfigTtl(t) ==
  /\ config.ttl # t
  /\ config' = [config EXCEPT !.ttl = t]
  /\ last' = NoCall("config")
  /\ UNCHANGED <<hasLS, lsOK, store, cbRefs, now, written, invoked, owed>>

\* the caller assigns to the properties of ls.config
SetConfig(c) ==
  /\ config # c
  /\ config' = c
  /\ last' = NoCall("config")
  /\ UNCHANGED <<hasLS, lsOK, store, cbRefs, now, written, invoked, owed>>

\* localStorage becomes accessible to the page
EnvAccessible ==
  /\ ~lsOK
  /\ lsOK' = TRUE
  /\ last' = NoCall("env")
  /\ UNCHANGED <<hasLS, config, store, cbRefs, now, written, invoked, owed>>

\* another consumer of the shared store writes a text under a key
ForeignWrite(k, text) ==
  /\ lsOK
  /\ store[k] # text
  /\ store' = [store EXCEPT ![k] = text]
  /\ written' = [written EXCEPT ![k] = Foreign]
  /\ last' = NoCall("foreign")
  /\ UNCHANGED <<hasLS, lsOK, config, cbRefs, now, invoked, owed>>

\* ls.ts:56-62
DefaultConfig ==
  [ttl |-> Null, encrypt |-> Bool(FALSE), secret |-> Num(DefaultSecret)]

InitWith(c) ==
  /\ hasLS = Undefined
  /\ lsOK \in BOOLEAN
  /\ config = c
  /\ store = [k \in Keys |-> NoItem]
  /\ cbRefs = EmptyBag
  /\ now = MsPerSec
  /\ last = NoCall("init")
  /\ written = [k \in Keys |-> NotWritten]
  /\ invoked = {}
  /\ owed = {}

Init == InitWith(DefaultConfig)

Ttls == {Num(TtlShort), Num(TtlLong)}

\* ---- entries with and without a TTL, two keys, the clock, the scheduler
Next ==
  \/ \E k \in Keys, v \in {StrX, Undefined, MarkerObj}, t \in {Undefined} \cup Ttls :
       Set(k, v, [NoConf EXCEPT !.ttl = t])
  \/ \E k \in Keys : Get(k, NoConf)
  \/ \E k \in Keys : Remove(k)
  \/ Clear
  \/ \E f \in BOOLEAN : Poll(f)
  \/ \E t \in {Null} \cup Ttls : SetConfigTtl(t)
  \/ Tick

Spec == Init /\ [][Next]_vars

\* ---- the codec: one key, every value, every configuration
\* every kind of override of ttl and encrypt, for one value
CodecOverrides ==
  {[NoConf EXCEPT !.ttl = t, !.encrypt = e] :
     t \in {Undefined, Null, Num(0), NaN, Num(0 - 1), Num(TtlShort)},
     e \in {Undefined, Bool(TRUE), Bool(FALSE)}}

\* with and without a TTL, obfuscated or not, under either secret
CodecSetConfs ==
  {[NoConf EXCEPT !.ttl = t, !.encrypt = e, !.secret = s] :
     t \in {Undefined, Num(TtlShort)},
     e \in {Undefined, Bool(TRUE)},
     s \in {Undefined, Num(OtherSecret)}}

CodecGetConfs ==
  {[NoConf EXCEPT !.encrypt = e, !.decrypt = d, !.secret = s] :
     e \in {Undefined, Bool(TRUE)},
     d \in {Undefined, Bool(TRUE)},
     s \in {Undefined, Num(OtherSecret)}}

CodecConfigs ==
  {[ttl |-> t, encrypt |-> Bool(e), secret |-> Num(DefaultSecret)] :
     t \in {Null, Num(TtlLong)}, e \in BOOLEAN}

InitCodec == \E c \in CodecConfigs : InitWith(c)

\* the key is written when it is empty and then read back
NextCodec ==
  \/ \E v \in Vals, lc \in CodecSetConfs : store["a"] = NoItem /\ Set("a", v, lc)
  \/ \E lc \in CodecOverrides : store["a"] = NoItem /\ Set("a", StrX, lc)
  \/ \E lc \in CodecGetConfs : Get("a", lc)
  \/ Tick

SpecCodec == InitCodec /\ [][NextCodec]_vars

\* ---- availability and failures: foreign texts, values without a JSON
\* text, callbacks and their timers
GuardSetConfs ==
  {[NoConf EXCEPT !.ttl = t, !.cb = c] :
     t \in {Undefined, Num(TtlShort)}, c \in {Undefined, ArrowFn, NativeFn}}

\* a text another consumer wrote without JSON.stringify: hi
ForeignText == RawText(<<104, 105>>)

NextGuard ==
  \/ \E k \in Keys, lc \in GuardSetConfs : Set(k, StrX, lc)
  \/ \E k \in Keys, v \in {Undefined, Circular} : Set(k, v, NoConf)
  \/ \E k \in Keys : Get(k, NoConf)
  \/ \E k \in Keys : Remove(k)
  \/ Clear
  \/ \E f \in BOOLEAN : Poll(f)
  \/ \E tm \in BagToSet(cbRefs) : TimerFire(tm)
  \/ \E k \in Keys : ForeignWrite(k, ForeignText)
  \/ EnvAccessible
  \/ Tick

SpecGuard == Init /\ [][NextGuard]_vars

\* ---- timers: entries an earlier process left in the store, callbacks,
\* delayed timers
\* the expiry of an entry of an earlier process that is still live at start
PersistedExp == MsPerSec * (1 + TtlShort)

\* the texts set wrote in an earlier process: a live envelope with a
\* callback, and an envelope that expired while no process ran
PersistedLive ==
  JsonText(Obj(<<[k |-> APX, v |-> StrX], [k |-> TtlKey, v |-> Num(PersistedExp)],
                 [k |-> CbKey, v |-> Str(ArrowFn.src)]>>))
PersistedExpired ==
  JsonText(Obj(<<[k |-> APX, v |-> StrX], [k |-> TtlKey, v |-> Num(0)]>>))

\* localStorage outlives the process: the store at start is empty or holds
\* what an earlier process wrote
InitTimers ==
  /\ hasLS = Undefined
  /\ lsOK = TRUE
  /\ config = DefaultConfig
  /\ store \in [Keys -> {NoItem, PersistedLive, PersistedExpired}]
  /\ cbRefs = EmptyBag
  /\ now = MsPerSec
  /\ last = NoCall("init")
  /\ written = [k \in Keys |->
                  IF store[k] = NoItem THEN NotWritten
                  ELSE [t |-> "set", exp |-> Prop(store[k].v, TtlKey)]]
  /\ invoked = {}
  /\ owed = {}

TimerSetConfs ==
  {[NoConf EXCEPT !.ttl = t, !.cb = c] :
     t \in {Undefined, Num(TtlShort), Num(TtlLong)}, c \in {Undefined, ArrowFn}}

\* a timer armed for the key fires
KeyTimerFire(k) == \E tm \in BagToSet(cbRefs) : tm.key = k /\ TimerFire(tm)

NextTimers ==
  \/ \E k \in Keys, lc \in TimerSetConfs : Set(k, StrX, lc)
  \/ \E k \in Keys : Set(k, StrX, [NoConf EXCEPT !.cb = PlainFn])
  \/ \E k \in Keys : Get(k, NoConf)
  \/ \E k \in Keys : Remove(k)
  \/ Clear
  \/ \E f \in BOOLEAN : Poll(f)
  \/ \E k \in Keys : KeyTimerFire(k)
  \/ Tick

SpecTimers == InitTimers /\ [][NextTimers]_vars

\* ---- obfuscated envelopes and the scheduler
ObfusSetConfs ==
  {[NoConf EXCEPT !.ttl = Num(TtlShort), !.cb = c, !.encrypt = e] :
     c \in {Undefined, ArrowFn}, e \in {Undefined, Bool(TRUE)}}

ObfusGetConfs ==
  {[NoConf EXCEPT !.decrypt = d, !.secret = s] :
     d \in {Undefined, Bool(TRUE)}, s \in {Undefined, Num(OtherSecret)}}

NextObfus ==
  \/ \E k \in Keys, lc \in ObfusSetConfs : Set(k, StrX, lc)
  \/ \E k \in Keys, lc \in ObfusGetConfs : Get(k, lc)
  \/ \E f \in BOOLEAN : Poll(f)
  \/ \E k \in Keys : KeyTimerFire(k)
  \/ Tick

SpecObfus == Init /\ [][NextObfus]_vars

\* ---- the configuration changes while an entry is stored
AllConfigs ==
  {[ttl |-> t, encrypt |-> Bool(e), secret |-> Num(sec)] :
     t \in {Null} \cup Ttls, e \in BOOLEAN, sec \in Secrets}

\* get's configuration with a ttl of its own
TtlGetConfs ==
  {[NoConf EXCEPT !.ttl = t] : t \in {Undefined, Null} \cup Ttls}

NextConfig ==
  \/ \E t \in {Undefined} \cup Ttls : Set("a", StrX, [NoConf EXCEPT !.ttl = t])
  \/ \E lc \in TtlGetConfs : Get("a", lc)
  \/ \E c \in AllConfigs : SetConfig(c)
  \/ Tick

SpecConfig == Init /\ [][NextConfig]_vars

\* ------------------------------------------------------------ the claims
\* the text a key holds is a TTL envelope
IsEnvelope(text) ==
  text.t = "json" /\ isObject(text.v) /\ HasKey(text.v, APX)

\* C1: with no TTL in effect and obfuscation off, set of a value that has
\* a JSON text returns undefined, and the get that follows at once returns
\* the value as JSON keeps it (null kept, undefined properties dropped),
\* whatever the shape of the value.
C1_PlainRoundTrip ==
  (/\ last.op = "set"
   /\ hasLS = Bool(TRUE)
   /\ last.cfg.ttl = Undefined
   /\ config.ttl = Null
   /\ ~Truthy(last.cfg.encrypt)
   /\ ~Truthy(config.encrypt)
   /\ stringify(last.val).t = "json")
  => /\ last.ret = Undefined
     /\ \A ord \in KeyOrders :
          get(Machine, last.key, NoConf, ord).ret = JsonKeep(last.val)

\* C2: get right after set(k, v, {ttl: t}) returns v, and a get made when
\* the clock is past the expiry that set computed returns null and leaves
\* the key absent.
C2_TtlExpiry ==
  /\ (last.op = "set" /\ last.ret = Undefined /\ last.cfg.ttl \in Ttls)
       => \A ord \in KeyOrders : get(Machine, last.key, NoConf, ord).ret = last.val
  /\ (/\ last.op = "get"
      /\ written[last.key].t = "set"
      /\ written[last.key].exp # Null
      /\ now > written[last.key].exp.n)
       => last.ret = Null /\ store[last.key] = NoItem

Claimed(o, d) == IF o = Undefined THEN d ELSE o

\* C4: in set's effective configuration, an override of ttl or encrypt
\* that is undefined gives the default, and any other override (null,
\* false, 0, NaN, a negative number, true) is itself the effective value:
\* the entry has a TTL, the expiry, and is obfuscated as that value says.
C4_Override ==
  (last.op = "set" /\ last.ret = Undefined)
  => LET eff == merge(last.cfg)
         cl == [eff EXCEPT !.ttl = Claimed(last.cfg.ttl, config.ttl),
                           !.encrypt = Claimed(last.cfg.encrypt, config.encrypt)]
     IN  /\ hasTTLOf(eff) = hasTTLOf(cl)
         /\ hasTTLOf(eff) => eff.ttl = cl.ttl
         /\ Truthy(eff.encrypt) = Truthy(cl.encrypt)

\* the values and configurations a caller may hand to set once the probe
\* has answered
AnySetArgs ==
  {<<v, lc>> : v \in {StrX, Undefined, Circular}, lc \in GuardSetConfs}

\* no operation changes the machine m beyond what r tells
Untouched(r) ==
  /\ r.hasLS = hasLS
  /\ r.store = store
  /\ r.cbRefs = cbRefs

\* once the probe has said no, every operation degrades
C5_Degrades ==
  hasLS = Bool(FALSE)
  => \A k \in Keys, ord \in KeyOrders :
       /\ \A a \in AnySetArgs :
            LET r == set(Machine, k, a[1], a[2], ord) IN
            r.ret = Bool(FALSE) /\ Untouched(r)
       /\ LET r == get(Machine, k, NoConf, ord) IN r.ret = Null /\ Untouched(r)
       /\ LET r == remove(Machine, k, ord) IN r.ret = Bool(FALSE) /\ Untouched(r)
       /\ LET r == clear(Machine, ord) IN r.ret = Bool(FALSE) /\ Untouched(r)
       /\ \A f \in BOOLEAN :
            LET r == poll(Machine, f, ord) IN r.ret # Raised /\ Untouched(r)
       /\ cbRefs = EmptyBag

\* C5: the answer of the availability probe, once given, never changes;
\* and once it is false, set returns false, get null, remove and clear
\* false and poll nothing, none raising, touching the store or arming a
\* timer, even after the store has become accessible.
C5_ProbeOnce ==
  /\ []C5_Degrades
  /\ [][hasLS # Undefined => hasLS' = hasLS]_vars

\* C5 witness: the store has become accessible, the probe still says no,
\* and the set just made returned false and wrote nothing.
C5_Witness ==
  /\ hasLS = Bool(FALSE)
  /\ lsOK
  /\ last.op = "set"
  /\ last.ret = Bool(FALSE)
  /\ \A k \in Keys : store[k] = NoItem

\* C6: no call of set, get, remove, clear or poll raises, whatever text
\* the keys of the store hold.
C6_NeverRaises == last.ret # Raised

\* C7: set returns false exactly when the store is unavailable or the
\* value could not be encoded, and a set that returns false leaves the
\* store as it was.
C7_FailureWritesNothing ==
  [][last'.op = "set"
     => /\ (last'.ret = Bool(FALSE))
             <=> \/ hasLS' = Bool(FALSE)
                 \/ LET val == encode(last'.val, merge(last'.cfg)) IN
                    val = Throw \/ stringify(val) = Throw
        /\ last'.ret = Bool(FALSE) => store' = store]_vars

\* C8: poll(true) removes every entry that set wrote with a TTL, whatever
\* time it had left, and leaves the text of every entry that set wrote
\* without a TTL as it was.
C8_ForceFlush ==
  [][(last'.op = "poll" /\ last'.val = Bool(TRUE) /\ last'.ret # Raised
        /\ hasLS' = Bool(TRUE))
     => \A k \in Keys :
          /\ (written[k].t = "set" /\ written[k].exp # Null)
               => store'[k] = NoItem
          /\ (written[k].t = "set" /\ written[k].exp = Null)
               => store'[k] = store[k]]_vars

\* C9: a value that has a JSON text, set with obfuscation on, is what the
\* get that follows at once with obfuscation on and the same secret
\* returns, with or without a TTL.
C9_ObfuscatedRoundTrip ==
  (/\ last.op = "set"
   /\ last.ret = Undefined
   /\ Truthy(merge(last.cfg).encrypt)
   /\ stringify(last.val).t = "json"
   /\ JsonKeep(last.val) = last.val)
  => \A ord \in KeyOrders :
       get(Machine, last.key,
           [NoConf EXCEPT !.encrypt = Bool(TRUE), !.secret = last.cfg.secret],
           ord).ret = last.val

\* get is asked to decrypt, under lc, the text a key holds, and the
\* decrypter throws on it
DecryptFails(k, lc) ==
  LET conf == merge(lc)
      item == store[k].v
  IN  /\ Truthy(conf.decrypt) \/ Truthy(conf.encrypt)
      /\ decrypter(IF IsEnvelope(store[k]) THEN Prop(item, APX) ELSE item,
                   conf.secret.n) = Throw

\* the envelope a key holds has expired
Expired(k) ==
  IsEnvelope(store[k]) /\ JsGreater(now, Prop(store[k].v, TtlKey))

\* C10: a get that asks for decryption of a text the decrypter cannot
\* reverse (wrong secret, never obfuscated) does not raise and returns the
\* data unreversed: the payload of a live envelope, the whole value
\* otherwise; a get of an expired envelope returns null and removes the
\* key whether or not the payload can be reversed.
C10_DecryptFailure ==
  \A k \in Keys, lc \in CodecGetConfs, ord \in KeyOrders :
    (hasLS = Bool(TRUE) /\ store[k].t = "json")
    => LET r == get(Machine, k, lc, ord) IN
       /\ Expired(k)
            => r.ret = Null /\ r.store = [store EXCEPT ![k] = NoItem]
       /\ (DecryptFails(k, lc) /\ ~Expired(k))
            => /\ r.store = store
               /\ r.ret = IF IsEnvelope(store[k])
                            THEN Prop(store[k].v, APX) ELSE store[k].v

\* C10 witness: a get under the other secret has returned, as it is
\* stored, the payload that set obfuscated under the default secret.
C10_Witness ==
  /\ last.op = "get"
  /\ last.cfg.secret = Num(OtherSecret)
  /\ IsEnvelope(store[last.key])
  /\ ~Expired(last.key)
  /\ DecryptFails(last.key, last.cfg)
  /\ last.ret = Prop(store[last.key].v, APX)
  /\ last.ret.t = "string"
  /\ decrypter(last.ret, DefaultSecret) # Throw

\* C11: an entry set wrote with a TTL and a callback, and that the caller
\* has not removed, cleared or overwritten since, eventually has its
\* callback invoked with the key, whatever the other operations and
\* however late the timers run.  Callbacks are invoked by timers alone, and
\* timers are armed from the entries in the store alone: as long as the
\* callback is owed, a timer is armed for the key.
C11_CallbackStillDue ==
  \A k \in owed : \E tm \in BagToSet(cbRefs) : tm.key = k

\* the timers a poll leaves armed when it returns: one for each key that
\* holds an unexpired envelope with a callback
OnePerEntry ==
  SetToBag({[key |-> k, due |-> Prop(store[k].v, TtlKey).n,
             cb |-> Prop(store[k].v, CbKey)] :
              k \in {x \in Keys : /\ IsEnvelope(store[x])
                                  /\ ~Expired(x)
                                  /\ Truthy(Prop(store[x].v, CbKey))}})

\* C12: at most one timer is armed per key at any time, and when a poll
\* returns (the first operation of the process or not, forced or not) the
\* timers armed are exactly one per unexpired envelope with a callback.
C12_OneTimerPerKey ==
  /\ \A k \in Keys :
       LET S == {tm \in BagToSet(cbRefs) : tm.key = k} IN
       Cardinality(S) <= 1 /\ \A tm \in S : CopiesIn(tm, cbRefs) = 1
  /\ (last.op = "poll" /\ last.ret = Undefined /\ hasLS = Bool(TRUE))
       => cbRefs = OnePerEntry

\* C13: a timer that fires for a key removes the key and then calls the
\* callback with the key, which finds the key absent; it fires no earlier
\* than the delay it was armed with, which is the expiry of the envelope
\* the key holds, so never before the expiry set computed.
C13_TimerRemovesThenCalls ==
  [][last'.op = "timer"
     => /\ last'.val = NoItem
        /\ store'[last'.key] = NoItem
        /\ last'.key \in invoked'
        /\ \A k \in Keys : k # last'.key => store'[k] = store[k]
        /\ \A tm \in BagToSet(cbRefs) :
             IsEnvelope(store[tm.key])
               => tm.due = Prop(store[tm.key].v, TtlKey).n
        /\ (written[last'.key].t = "set" /\ written[last'.key].exp # Null)
             => now >= written[last'.key].exp.n]_vars

\* C13 witness: after time has passed a timer has fired for a key, and its
\* callback was called with the key and found it absent.
C13_Witness ==
  /\ last.op = "timer"
  /\ last.val = NoItem
  /\ last.key \in invoked
  /\ store[last.key] = NoItem
  /\ now > MsPerSec

\* the payloads an envelope may carry for one value: plain, or obfuscated
\* under either secret
TwinPayloads == {StrX} \cup {obfus(StrX, sec) : sec \in Secrets}

\* the machine whose store differs only in the payload of the envelope
\* under k
Twin(k, p) ==
  [Machine EXCEPT !.store[k] = JsonText(PutProp(store[k].v, APX, p))]

\* the keys a store holds nothing under
Absent(st) == {k \in Keys : st[k] = NoItem}

\* C14: set obfuscates the payload of an envelope only, the expiry and the
\* callback text are stored as without obfuscation; and for two stores
\* that differ only in how the payload of an envelope is obfuscated, poll
\* removes the same keys and arms the same timers, and get reports expiry
\* alike.
C14_SchedulerIgnoresSecret ==
  /\ (/\ last.op = "set"
      /\ last.ret = Undefined
      /\ hasTTLOf(merge(last.cfg))
      /\ Truthy(merge(last.cfg).encrypt))
       => store[last.key] =
            JsonText(PutProp(encode(last.val, [merge(last.cfg) EXCEPT !.encrypt = Bool(FALSE)]),
                             APX, obfus(last.val, merge(last.cfg).secret.n)))
  /\ \A k \in Keys, p \in TwinPayloads, ord \in Orders(Undefined) :
       IsEnvelope(store[k])
       => /\ \A f \in BOOLEAN :
               LET r1 == poll(Machine, f, ord)
                   r2 == poll(Twin(k, p), f, ord)
               IN  /\ r1.ret = r2.ret
                   /\ Absent(r1.store) = Absent(r2.store)
                   /\ r1.cbRefs = r2.cbRefs
          /\ \A lc \in ObfusGetConfs :
               LET r1 == get(Machine, k, lc, ord)
                   r2 == get(Twin(k, p), k, lc, ord)
               IN  /\ (r1.ret = Null) <=> (r2.ret = Null)
                   /\ Absent(r1.store) = Absent(r2.store)
                   /\ r1.cbRefs = r2.cbRefs

\* C14 witness: two keys hold envelopes of the same value with the same
\* expiry and callback, one with a plain payload and one with an
\* obfuscated payload, and a poll has just passed over them.
C14_Witness ==
  /\ last.op = "poll"
  /\ IsEnvelope(store["a"])
  /\ IsEnvelope(store["b"])
  /\ Prop(store["a"].v, APX) = StrX
  /\ Prop(store["b"].v, APX) = obfus(StrX, DefaultSecret)
  /\ Prop(store["a"].v, TtlKey) = Prop(store["b"].v, TtlKey)
  /\ Prop(store["a"].v, CbKey) = Str(ArrowFn.src)
  /\ Prop(store["b"].v, CbKey) = Str(ArrowFn.src)
  /\ \E ta, tb \in BagToSet(cbRefs) : ta.key = "a" /\ tb.key = "b" /\ ta.due = tb.due

\* C15: a pass that is not forced removes the envelopes whose expiry is
\* past and no other key: when poll() has run, every key that held an
\* expired envelope is absent and every other key holds what it held.
C15_PassRemovesExpired ==
  [][(last'.op = "poll" /\ last'.val = Bool(FALSE) /\ hasLS' = Bool(TRUE))
     => \A k \in Keys :
          store'[k] = IF Expired(k) THEN NoItem ELSE store[k]]_vars

\* C16: get(k) leaves every other key as it was, and leaves k as it was
\* unless k held an expired envelope, which it removes.
C16_GetFrame ==
  [][last'.op = "get"
     => \A k \in Keys :
          store'[k] = IF k = last'.key /\ Expired(k) THEN NoItem ELSE store[k]]_vars

\* C17: a set with a callback and no TTL in effect stores the bare value,
\* without envelope or callback text, and arms no timer; the callback is
\* in no text of the store and in no timer, so it is never invoked.
C17_CallbackNeedsTtl ==
  /\ [](/\ (/\ last.op = "set"
            /\ last.ret = Undefined
            /\ last.cfg.cb.t = "function"
            /\ ~hasTTLOf(merge(last.cfg)))
             => /\ store[last.key] = JsonText(last.val)
                /\ ~IsEnvelope(store[last.key])
         /\ \A tm \in BagToSet(cbRefs) : tm.cb # Str(PlainFn.src)
         /\ \A k \in Keys :
              IsEnvelope(store[k]) => Prop(store[k].v, CbKey) # Str(PlainFn.src))
  /\ [][(/\ last'.op = "set"
         /\ last'.cfg.cb.t = "function"
         /\ ~hasTTLOf(merge(last'.cfg))
         /\ hasLS # Undefined)
        => cbRefs' = cbRefs]_vars

\* C17 witness: a set with a callback and no TTL has stored the bare value
\* under a key for which no timer is armed.
C17_Witness ==
  /\ last.op = "set"
  /\ last.ret = Undefined
  /\ last.cfg.cb = PlainFn
  /\ ~hasTTLOf(merge(last.cfg))
  /\ store[last.key] = JsonText(StrX)
  /\ \A tm \in BagToSet(cbRefs) : tm.key # last.key

\* C18: an entry set wrote without a TTL keeps its text until remove(k),
\* clear() or a set of the same key: no other step changes what the key
\* holds.
C18_PlainEntryStays ==
  [][\A k \in Keys :
       (written[k].t = "set" /\ written[k].exp = Null /\ store'[k] # store[k])
       => \/ last'.op = "clear"
          \/ last'.op \in {"remove", "set"} /\ last'.key = k]_vars

\* C19: right after remove(k) or clear() has removed k, no timer calls a
\* callback with k or touches the store for k.
C19_NoCallbackAfterRemove ==
  [][(/\ last.ret = Undefined
      /\ \/ last.op = "clear"
         \/ last.op = "remove" /\ last.key = last'.key)
     => last'.op # "timer"]_vars

\* C20: the envelope a key holds keeps the expiry set computed when it
\* wrote it, whatever ls.config has become since; and get, whatever ttl it
\* is given and whatever ls.config holds, removes the entry and returns
\* null when the clock is past that expiry, and leaves it otherwise.
C20_ExpiryFixedAtWrite ==
  \A k \in Keys :
    (hasLS = Bool(TRUE) /\ written[k].t = "set" /\ written[k].exp # Null)
    => /\ IsEnvelope(store[k])
       /\ Prop(store[k].v, TtlKey) = written[k].exp
       /\ \A lc \in TtlGetConfs, ord \in KeyOrders :
            LET r == get(Machine, k, lc, ord) IN
            IF now > written[k].exp.n
              THEN r.ret = Null /\ r.store = [store EXCEPT ![k] = NoItem]
              ELSE r.ret # Null /\ r.store = store

\* C20 witness: an entry written at the start with the long ttl is still
\* stored, past its expiry, and every property of ls.config has changed
\* since: the default ttl is the short one, obfuscation is on, the secret
\* is the other one.
C20_Witness ==
  /\ written["a"].t = "set"
  /\ written["a"].exp = Num(MsPerSec * (1 + TtlLong))
  /\ store["a"] # NoItem
  /\ config = [ttl |-> Num(TtlShort), encrypt |-> Bool(TRUE), secret |-> Num(OtherSecret)]
  /\ now > written["a"].exp.n

=============================================================================
